---- MODULE Spec2Model ----
(***************************************************************************)
(* Model of the two MCP tool servers of this repository (math_server.py,   *)
(* scw_server.py): one server process serving one session over the         *)
(* process-pipe transport.  The state is what a peer can observe: the      *)
(* session state, the last request and its response, the handler that was  *)
(* invoked and with which arguments, the request sent to the cloud API and *)
(* the records written to the process's standard output.                   *)
(***************************************************************************)
EXTENDS Integers, Sequences, FiniteSets, TLC

VARIABLES
    server,      \* which server process this is: "math" or "scw"
    session,     \* "Uninitialized" | "Initialized" | "Closed"
    req,         \* the last request served
    resp,        \* the response to it
    invoked,     \* the handler method the last call_tool invoked, with its arguments
    apiRequest,  \* the HTTP request the last call_tool sent to the cloud API
    stdout,      \* the records written to standard output, oldest first
    firstList,   \* the catalog returned by the first list_tools of the session
    history,     \* kinds of the responses before the last one, oldest first
    nreq         \* number of requests served

vars == <<server, session, req, resp, invoked, apiRequest, stdout, firstList, history, nreq>>

-----------------------------------------------------------------------------
(* Bounds *)

MaxNum == 1        \* numeric arguments range over -MaxNum..MaxNum (and the halves between)
MaxRequests == 3   \* requests served in one session

-----------------------------------------------------------------------------
(* JSON values as they arrive in the arguments mapping.  A float is kept   *)
(* in sign-magnitude form, the magnitude counted in halves, so that 3 and  *)
(* 3.0 are different values and -0.0 exists.                                *)

IntVal(n) == [kind |-> "int", neg |-> n < 0, mag |-> IF n < 0 THEN -n ELSE n, s |-> ""]
FloatVal(neg, halves) == [kind |-> "float", neg |-> neg, mag |-> halves, s |-> ""]
StrVal(s) == [kind |-> "str", neg |-> FALSE, mag |-> 0, s |-> s]
BoolVal(b) == [kind |-> "bool", neg |-> FALSE, mag |-> IF b THEN 1 ELSE 0, s |-> ""]
ObjVal(tag) == [kind |-> "object", neg |-> FALSE, mag |-> 0, s |-> tag]
Null == [kind |-> "null", neg |-> FALSE, mag |-> 0, s |-> ""]
Absent == [kind |-> "absent", neg |-> FALSE, mag |-> 0, s |-> ""]

\* the mapping that holds exactly the supplied fields of `full`
MkArgs(full) == [k \in {f \in DOMAIN full : full[f] # Absent} |-> full[k]]

\* arguments.get(k) with its default left out
Get_noDefault(arguments, k, default) == IF k \in DOMAIN arguments THEN arguments[k] ELSE Null

\* arguments.get(k, default)
Get(arguments, k, default) == IF k \in DOMAIN arguments THEN arguments[k] ELSE default

\* all(k in arguments for k in keys)
AllIn(keys, arguments) == \A k \in keys : k \in DOMAIN arguments

-----------------------------------------------------------------------------
(* Python float arithmetic on the modelled values (all exact in binary64) *)

Signed(f) == IF f.neg THEN -f.mag ELSE f.mag

Abs(i) == IF i < 0 THEN -i ELSE i

\* the argument passed on as it came, without float()
PyFloat_asis(x) ==
    CASE x.kind \in {"int", "float", "bool"}
                          -> [ok |-> TRUE, val |-> x, etype |-> "", exc |-> ""]
      [] x.kind = "str" /\ x.s = "1.5"
                          -> [ok |-> TRUE, val |-> FloatVal(FALSE, 3), etype |-> "", exc |-> ""]
      [] x.kind = "str"   -> [ok |-> FALSE, val |-> Null, etype |-> "ValueError",
                              exc |-> "could not convert string to float"]
      [] OTHER            -> [ok |-> FALSE, val |-> Null, etype |-> "TypeError",
                              exc |-> "float() argument must be a string or a real number"]

\* float(x): the conversion call_tool applies to a and b
PyFloat(x) ==
    CASE x.kind = "int"   -> [ok |-> TRUE, val |-> FloatVal(x.neg, 2 * x.mag), etype |-> "", exc |-> ""]
      [] x.kind = "float" -> [ok |-> TRUE, val |-> x, etype |-> "", exc |-> ""]
      [] x.kind = "bool"  -> [ok |-> TRUE, val |-> FloatVal(FALSE, 2 * x.mag), etype |-> "", exc |-> ""]
      [] x.kind = "str" /\ x.s = "1.5"
                          -> [ok |-> TRUE, val |-> FloatVal(FALSE, 3), etype |-> "", exc |-> ""]
      [] x.kind = "str"   -> [ok |-> FALSE, val |-> Null, etype |-> "ValueError",
                              exc |-> "could not convert string to float"]
      [] OTHER            -> [ok |-> FALSE, val |-> Null, etype |-> "TypeError",
                              exc |-> "float() argument must be a string or a real number"]

FNeg(y) == FloatVal(~y.neg, y.mag)

\* a + b on floats, with IEEE signed zeros
FAdd(x, y) ==
    LET sum == Signed(x) + Signed(y)
    IN  IF x.mag = 0 /\ y.mag = 0 THEN FloatVal(x.neg /\ y.neg, 0)
        ELSE IF sum = 0 THEN FloatVal(FALSE, 0)
        ELSE FloatVal(sum < 0, Abs(sum))

\* a - b on floats
FSub(x, y) == FAdd(x, FNeg(y))

\* repr of a float, as f"{a}" and json.dumps print it
FloatRepr(f) ==
    (IF f.neg THEN "-" ELSE "") \o ToString(f.mag \div 2)
        \o (IF f.mag % 2 = 0 THEN ".0" ELSE ".5")

-----------------------------------------------------------------------------
(* math_server.py *)

NoDefault == Absent

Prop(type, enum, default) == [type |-> type, enum |-> enum, default |-> default]

MathTools == [ADD |-> "add", SUBTRACT |-> "subtract"]

\* MathServer.add
MathServer_add(a, b) ==
    LET result == FAdd(a, b)
    IN  [operation |-> "addition",
         result |-> result,
         details |-> FloatRepr(a) \o " + " \o FloatRepr(b) \o " = " \o FloatRepr(result)]

\* subtract with its operands swapped
MathServer_subtract_swapped(a, b) ==
    LET result == FSub(b, a)
    IN  [operation |-> "subtraction",
         result |-> result,
         details |-> FloatRepr(a) \o " - " \o FloatRepr(b) \o " = " \o FloatRepr(result)]

\* MathServer.subtract
MathServer_subtract(a, b) ==
    LET result == FSub(a, b)
    IN  [operation |-> "subtraction",
         result |-> result,
         details |-> FloatRepr(a) \o " - " \o FloatRepr(b) \o " = " \o FloatRepr(result)]

\* json.dumps(result.model_dump(), indent=2) of a MathResult
DumpMathResult(r) ==
    [operation |-> r.operation, result |-> FloatRepr(r.result), details |-> r.details]

\* list_tools of the math server
MathListTools ==
    << [name |-> MathTools.ADD,
        properties |-> [a |-> Prop("number", {}, NoDefault),
                        b |-> Prop("number", {}, NoDefault)],
        required |-> <<"a", "b">>],
       [name |-> MathTools.SUBTRACT,
        properties |-> [a |-> Prop("number", {}, NoDefault),
                        b |-> Prop("number", {}, NoDefault)],
        required |-> <<"a", "b">>] >>

-----------------------------------------------------------------------------
(* Outcome of one execution of a call_tool handler function *)

NoError == [type |-> "", message |-> "", fields |-> {}, tool |-> ""]
NoInvoke == [handler |-> "", args |-> <<>>]
NoApi == [method |-> "", zone |-> Absent, server_id |-> Absent, params |-> <<>>, payload |-> <<>>]

\* an exception: its type, str(e), and the argument names / tool name that
\* the text of str(e) contains
Exc(type, message, fields, tool) ==
    [type |-> type, message |-> message, fields |-> fields, tool |-> tool]

Raised(e, inv, api) ==
    [raised |-> TRUE, error |-> e, content |-> <<>>, invoked |-> inv, api |-> api]

Returned(content, inv, api) ==
    [raised |-> FALSE, error |-> NoError, content |-> content, invoked |-> inv, api |-> api]

TextContent(text) == [type |-> "text", text |-> text]

\* except Exception as e: raise McpError(f"{prefix}: {str(e)}")
McpError(prefix, e) ==
    Exc("McpError", prefix \o ": " \o e.message, e.fields, e.tool)

-----------------------------------------------------------------------------
(* math_server.py: call_tool *)

\* raise ValueError("Missing required arguments: a and b")
MathMissingArgs_onlyA ==
    Exc("ValueError", "Missing required argument: a", {"a"}, "")

MathMissingArgs ==
    Exc("ValueError", "Missing required arguments: a and b", {"a", "b"}, "")

\* case _: raise ValueError(f"Unknown tool: {name}")
MathUnknownTool(name) ==
    Raised(Exc("ValueError", "Unknown tool: " \o name, {}, name), NoInvoke, NoApi)

\* the body of the try block
MathMatch(name, arguments) ==
    IF name \in {MathTools.ADD, MathTools.SUBTRACT}
    THEN IF ~AllIn({"a", "b"}, arguments)
         THEN Raised(MathMissingArgs, NoInvoke, NoApi)
         ELSE LET fa == PyFloat(arguments["a"])
                  fb == PyFloat(arguments["b"])
              IN  IF ~fa.ok THEN Raised(Exc(fa.etype, fa.exc, {}, ""), NoInvoke, NoApi)
                  ELSE IF ~fb.ok THEN Raised(Exc(fb.etype, fb.exc, {}, ""), NoInvoke, NoApi)
                  ELSE IF name = MathTools.ADD
                  THEN Returned(<<TextContent(DumpMathResult(MathServer_add(fa.val, fb.val)))>>,
                                [handler |-> "add", args |-> [a |-> fa.val, b |-> fb.val]],
                                NoApi)
                  ELSE Returned(<<TextContent(DumpMathResult(MathServer_subtract(fa.val, fb.val)))>>,
                                [handler |-> "subtract", args |-> [a |-> fa.val, b |-> fb.val]],
                                NoApi)
    ELSE MathUnknownTool(name)

\* call_tool of the math server: the try block and its except clause
MathCallTool(name, arguments) ==
    LET o == MathMatch(name, arguments)
    IN  IF o.raised
        THEN Raised(McpError("Error processing math operation", o.error), o.invoked, o.api)
        ELSE o

-----------------------------------------------------------------------------
(* scw_server.py *)

ScalewayTools == [LIST_INSTANCES |-> "list_instances",
                  GET_INSTANCE |-> "get_instance",
                  PERFORM_ACTION |-> "perform_action"]

ZoneEnum == {"fr-par-1", "fr-par-2", "fr-par-3", "nl-ams-1", "nl-ams-2", "nl-ams-3",
             "pl-waw-1", "pl-waw-2", "pl-waw-3"}
StateEnum == {"running", "stopped", "stopped in place"}
ActionEnum == {"poweron", "poweroff", "stop_in_place", "reboot", "backup", "terminate",
               "enable_routed_ip"}

\* list_tools of the Scaleway server
ScwListTools ==
    << [name |-> ScalewayTools.LIST_INSTANCES,
        properties |-> [zone |-> Prop("string", ZoneEnum, NoDefault),
                        per_page |-> Prop("integer", {}, IntVal(50)),
                        page |-> Prop("integer", {}, IntVal(1)),
                        project |-> Prop("string", {}, NoDefault),
                        state |-> Prop("string", StateEnum, StrVal("running"))],
        required |-> <<"zone">>],
       [name |-> ScalewayTools.GET_INSTANCE,
        properties |-> [zone |-> Prop("string", ZoneEnum, NoDefault),
                        server_id |-> Prop("string", {}, NoDefault)],
        required |-> <<"zone", "server_id">>],
       [name |-> ScalewayTools.PERFORM_ACTION,
        properties |-> [zone |-> Prop("string", ZoneEnum, NoDefault),
                        server_id |-> Prop("string", {}, NoDefault),
                        action |-> Prop("string", ActionEnum, StrVal("poweron")),
                        name |-> Prop("string", {}, NoDefault),
                        volumes |-> Prop("object", {}, NoDefault),
                        disable_ipv6 |-> Prop("boolean", {}, NoDefault)],
        required |-> <<"zone", "server_id", "action">>] >>

\* what the cloud API does with a request that was sent
HttpOutcomes == {"ok", "http_error", "invalid_body"}

\* Python truthiness, as in `if project:`
Truthy(v) ==
    ~ \/ v.kind = "null"
      \/ v.kind = "str" /\ v.s = ""
      \/ v.kind \in {"int", "float", "bool"} /\ v.mag = 0

\* the exception a failed exchange raises inside a ScalewayServer method:
\* raise_for_status() raises a RequestException, a body that does not fit the
\* response model raises a pydantic ValidationError
HttpFailure(http) ==
    IF http = "http_error"
    THEN Exc("RequestException", "HTTP error from the API", {}, "")
    ELSE Exc("ValidationError", "validation error for response model", {}, "")

\* params of ScalewayServer.list_instances
ListInstancesParams(per_page, page, project, state) ==
    IF Truthy(project)
    THEN [per_page |-> per_page, page |-> page, state |-> state, project |-> project]
    ELSE [per_page |-> per_page, page |-> page, state |-> state]

\* the payload with name included for every action
PerformActionPayload_anyAction(action, name, volumes, disable_ipv6) ==
    LET full == [action |-> action,
                 name |-> IF name # Null THEN name ELSE Absent,
                 volumes |-> IF volumes # Null /\ action = StrVal("backup")
                             THEN volumes ELSE Absent,
                 disable_ipv6 |-> IF disable_ipv6 # Null /\ action = StrVal("enable_routed_ip")
                                  THEN disable_ipv6 ELSE Absent]
    IN  MkArgs(full)

\* payload of ScalewayServer.perform_action
PerformActionPayload(action, name, volumes, disable_ipv6) ==
    LET full == [action |-> action,
                 name |-> IF name # Null /\ action = StrVal("backup") THEN name ELSE Absent,
                 volumes |-> IF volumes # Null /\ action = StrVal("backup")
                             THEN volumes ELSE Absent,
                 disable_ipv6 |-> IF disable_ipv6 # Null /\ action = StrVal("enable_routed_ip")
                                  THEN disable_ipv6 ELSE Absent]
    IN  MkArgs(full)

\* the instance and the task the modelled API reports on success
ApiInstance == [id |-> "srv-1", name |-> "web", state |-> "running",
                commercial_type |-> "DEV1-S", private_ip |-> "10.0.0.1",
                zone |-> "fr-par-1", tags |-> <<>>]
ApiTask == [id |-> "task-1", description |-> "server_action", progress |-> 0,
            status |-> "pending", zone |-> "fr-par-1"]

ScwRequest(method, zone, server_id, params, payload) ==
    [method |-> method, zone |-> zone, server_id |-> server_id,
     params |-> params, payload |-> payload]

\* ScalewayServer.list_instances, then the serialisation of its result
ScalewayServer_list_instances(zone, per_page, page, project, state, http) ==
    LET inv == [handler |-> "list_instances",
                args |-> [zone |-> zone, per_page |-> per_page, page |-> page,
                          project |-> project, state |-> state]]
        api == ScwRequest("GET", zone, Absent,
                          ListInstancesParams(per_page, page, project, state), <<>>)
    IN  IF http = "ok"
        THEN Returned(<<TextContent([instances |-> <<ApiInstance>>, total_count |-> 1])>>,
                      inv, api)
        ELSE Raised(HttpFailure(http), inv, api)

\* ScalewayServer.get_instance, then the serialisation of its result
ScalewayServer_get_instance(zone, server_id, http) ==
    LET inv == [handler |-> "get_instance",
                args |-> [zone |-> zone, server_id |-> server_id]]
        api == ScwRequest("GET", zone, server_id, <<>>, <<>>)
    IN  IF http = "ok"
        THEN Returned(<<TextContent([instance |-> ApiInstance])>>, inv, api)
        ELSE Raised(HttpFailure(http), inv, api)

\* ScalewayServer.perform_action, then the serialisation of its result
ScalewayServer_perform_action(zone, server_id, action, name, volumes, disable_ipv6, http) ==
    LET inv == [handler |-> "perform_action",
                args |-> [zone |-> zone, server_id |-> server_id, action |-> action,
                          name |-> name, volumes |-> volumes,
                          disable_ipv6 |-> disable_ipv6]]
        api == ScwRequest("POST", zone, server_id, <<>>,
                          PerformActionPayload(action, name, volumes, disable_ipv6))
    IN  IF http = "ok"
        THEN Returned(<<TextContent([task |-> ApiTask])>>, inv, api)
        ELSE Raised(HttpFailure(http), inv, api)

\* an unknown name answered with an empty result
ScwUnknownTool_silent(name) == Returned(<<>>, NoInvoke, NoApi)

\* case _: raise ValueError(f"Unknown tool: {name}")
ScwUnknownTool(name) ==
    Raised(Exc("ValueError", "Unknown tool: " \o name, {}, name), NoInvoke, NoApi)

\* the body of the try block of call_tool
ScwMatch(name, arguments, http) ==
    CASE name = ScalewayTools.LIST_INSTANCES ->
           IF "zone" \notin DOMAIN arguments
           THEN Raised(Exc("ValueError", "Missing required argument: zone", {"zone"}, ""),
                       NoInvoke, NoApi)
           ELSE ScalewayServer_list_instances(
                    arguments["zone"],
                    Get(arguments, "per_page", IntVal(50)),
                    Get(arguments, "page", IntVal(1)),
                    Get(arguments, "project", Null),
                    Get(arguments, "state", StrVal("running")),
                    http)
      [] name = ScalewayTools.GET_INSTANCE ->
           IF ~AllIn({"zone", "server_id"}, arguments)
           THEN Raised(Exc("ValueError", "Missing required arguments: zone and/or server_id",
                           {"zone", "server_id"}, ""),
                       NoInvoke, NoApi)
           ELSE ScalewayServer_get_instance(arguments["zone"], arguments["server_id"], http)
      [] name = ScalewayTools.PERFORM_ACTION ->
           IF ~AllIn({"zone", "server_id", "action"}, arguments)
           THEN Raised(Exc("ValueError",
                           "Missing required arguments: zone, server_id, and/or action",
                           {"zone", "server_id", "action"}, ""),
                       NoInvoke, NoApi)
           ELSE ScalewayServer_perform_action(
                    arguments["zone"], arguments["server_id"], arguments["action"],
                    Get(arguments, "name", Null),
                    Get(arguments, "volumes", Null),
                    Get(arguments, "disable_ipv6", Null),
                    http)
      [] OTHER -> ScwUnknownTool(name)

\* call_tool of the Scaleway server: the try block and its two except clauses
ScwCallTool(name, arguments, http) ==
    LET o == ScwMatch(name, arguments, http)
    IN  IF ~o.raised THEN o
        ELSE IF o.error.type = "RequestException"
        THEN Raised(McpError("API request error", o.error), o.invoked, o.api)
        ELSE Raised(McpError("Error processing Scaleway operation", o.error),
                    o.invoked, o.api)

\* print (name, arguments), the first statement of call_tool
ScwPrint(name, arguments) == <<"print">>

-----------------------------------------------------------------------------
(* The serving loop: server.run over stdio_server *)

Servers == {"math", "scw"}

\* the math catalog listed in the opposite order
ListTools_reversed(srv) ==
    IF srv = "math" THEN <<MathListTools[2], MathListTools[1]>> ELSE ScwListTools

\* the list_tools handler registered on the server
ListTools(srv) == IF srv = "math" THEN MathListTools ELSE ScwListTools

NoReq == [op |-> "none", name |-> "", arguments |-> <<>>, http |-> ""]
NoResp == [kind |-> "none", content |-> <<>>, error |-> NoError, tools |-> <<>>]

CallReq(name, arguments, http) ==
    [op |-> "call_tool", name |-> name, arguments |-> arguments, http |-> http]

\* a raised exception tearing the session down
ServeCall_teardown(o) ==
    [resp |-> IF o.raised
              THEN [kind |-> "error", content |-> <<>>, error |-> o.error, tools |-> <<>>]
              ELSE [kind |-> "result", content |-> o.content, error |-> NoError,
                    tools |-> <<>>],
     session |-> IF o.raised THEN "Closed" ELSE "Initialized"]

\* what the session makes of one execution of the call_tool handler: a
\* returned content sequence is the result, a raised exception becomes the
\* error response of that request, and the loop goes on
ServeCall(o) ==
    [resp |-> IF o.raised
              THEN [kind |-> "error", content |-> <<>>, error |-> o.error, tools |-> <<>>]
              ELSE [kind |-> "result", content |-> o.content, error |-> NoError,
                    tools |-> <<>>],
     session |-> "Initialized"]

Init ==
    /\ server \in Servers
    /\ session = "Uninitialized"
    /\ req = NoReq
    /\ resp = NoResp
    /\ invoked = NoInvoke
    /\ apiRequest = NoApi
    /\ stdout = <<>>
    /\ firstList = <<>>
    /\ history = <<>>
    /\ nreq = 0

\* the handshake: the session becomes Initialized
Initialize ==
    /\ session = "Uninitialized"
    /\ session' = "Initialized"
    /\ stdout' = Append(stdout, "message")
    /\ UNCHANGED <<server, req, resp, invoked, apiRequest, firstList, history, nreq>>

\* one list_tools request
ServeListTools ==
    /\ session = "Initialized"
    /\ nreq < MaxRequests
    /\ req' = [op |-> "list_tools", name |-> "", arguments |-> <<>>, http |-> ""]
    /\ resp' = [kind |-> "tools", content |-> <<>>, error |-> NoError,
                tools |-> ListTools(server)]
    /\ firstList' = IF firstList = <<>> THEN ListTools(server) ELSE firstList
    /\ stdout' = Append(stdout, "message")
    /\ history' = IF nreq = 0 THEN <<>> ELSE Append(history, resp.kind)
    /\ nreq' = nreq + 1
    /\ invoked' = NoInvoke
    /\ apiRequest' = NoApi
    /\ UNCHANGED <<server, session>>

\* the arguments a peer may send to the math server
Ints == {IntVal(n) : n \in -MaxNum..MaxNum}
Floats == {FloatVal(neg, h) : neg \in BOOLEAN, h \in 0..(2 * MaxNum)}
Numbers == Ints \cup Floats
NotNumbers == {StrVal("abc"), StrVal("1.5"), Null, BoolVal(TRUE)}
MathNames == {"add", "subtract", "multiply"}
MathArgs(name) ==
    IF name \in {"add", "subtract"}
    THEN {MkArgs([a |-> a, b |-> b]) : a \in Numbers, b \in Numbers}
         \cup
         {MkArgs([a |-> a, b |-> b]) :
             a \in NotNumbers \cup {Absent}, b \in {Absent, IntVal(1), StrVal("abc")}}
         \cup
         {MkArgs([a |-> a, b |-> b]) :
             a \in {Absent, IntVal(1), StrVal("abc")}, b \in NotNumbers \cup {Absent}}
    ELSE {MkArgs([a |-> a, b |-> b]) :
             a \in {Absent, IntVal(1)}, b \in {Absent, FloatVal(FALSE, 1)}}

\* one call_tool request to the math server
ServeMathCall ==
    /\ server = "math"
    /\ session = "Initialized"
    /\ nreq < MaxRequests
    /\ \E name \in MathNames :
       \E arguments \in MathArgs(name) :
         \E o \in {MathCallTool(name, arguments)} :
         \E served \in {ServeCall(o)} :
             /\ req' = CallReq(name, arguments, "")
             /\ resp' = served.resp
             /\ session' = served.session
             /\ invoked' = o.invoked
             /\ apiRequest' = o.api
    /\ stdout' = Append(stdout, "message")
    /\ history' = IF nreq = 0 THEN <<>> ELSE Append(history, resp.kind)
    /\ nreq' = nreq + 1
    /\ UNCHANGED <<server, firstList>>

\* the arguments a peer may send to the Scaleway server
ZoneIn == {Absent, StrVal("fr-par-1"), StrVal("mars-1")}
ServerIdIn == {Absent, StrVal("srv-1"), IntVal(7)}
ListInstancesArgs ==
    {MkArgs([zone |-> z, per_page |-> pp[1], page |-> pp[2], project |-> pr, state |-> st]) :
        z \in ZoneIn,
        pp \in {<<Absent, Absent>>, <<IntVal(10), IntVal(2)>>, <<StrVal("ten"), Absent>>},
        pr \in {Absent, StrVal("proj-1"), StrVal("")},
        st \in {Absent, StrVal("stopped")}}
GetInstanceArgs ==
    {MkArgs([zone |-> z, server_id |-> sid]) : z \in ZoneIn, sid \in ServerIdIn}
ActionIn == {StrVal("poweron"), StrVal("backup"), StrVal("enable_routed_ip"),
             StrVal("explode")}
PerformActionArgs ==
    {MkArgs([zone |-> StrVal("fr-par-1"), server_id |-> StrVal("srv-1"), action |-> act,
             name |-> nv[1], volumes |-> nv[2], disable_ipv6 |-> d6]) :
        act \in ActionIn,
        nv \in {<<Absent, Absent>>, <<Null, Absent>>, <<StrVal("nightly"), ObjVal("vol-1")>>,
                <<Absent, ObjVal("vol-1")>>},
        d6 \in {Absent, Null, BoolVal(TRUE)}}
    \cup
    {MkArgs([zone |-> z, server_id |-> sid, action |-> act, name |-> StrVal("nightly"),
             volumes |-> Absent, disable_ipv6 |-> Absent]) :
        z \in {Absent, StrVal("fr-par-1")}, sid \in {Absent, StrVal("srv-1")},
        act \in {Absent, StrVal("backup")}}
ScwNames == {"list_instances", "get_instance", "perform_action", "add"}
ScwArgs(name) ==
    CASE name = "list_instances" -> ListInstancesArgs
      [] name = "perform_action" -> PerformActionArgs
      [] OTHER -> GetInstanceArgs

\* one call_tool request to the Scaleway server
ServeScwCall ==
    /\ server = "scw"
    /\ session = "Initialized"
    /\ nreq < MaxRequests
    /\ \E name \in ScwNames, http \in HttpOutcomes :
         \E arguments \in ScwArgs(name) :
           \E o \in {ScwCallTool(name, arguments, http)} :
           \E served \in {ServeCall(o)} :
               /\ o.api = NoApi => http = "ok"   \* no request sent: nothing to fail
               /\ req' = CallReq(name, arguments, http)
               /\ resp' = served.resp
               /\ session' = served.session
               /\ invoked' = o.invoked
               /\ apiRequest' = o.api
               /\ stdout' = (stdout \o ScwPrint(name, arguments)) \o <<"message">>
    /\ history' = IF nreq = 0 THEN <<>> ELSE Append(history, resp.kind)
    /\ nreq' = nreq + 1
    /\ UNCHANGED <<server, firstList>>

\* the peer closes the channel: server.run returns
Close ==
    /\ session = "Initialized"
    /\ session' = "Closed"
    /\ UNCHANGED <<server, req, resp, invoked, apiRequest, stdout, firstList, history, nreq>>

Next ==
    \/ Initialize
    \/ ServeListTools
    \/ ServeMathCall
    \/ ServeScwCall
    \/ Close

Spec == Init /\ [][Next]_vars

TypeOK ==
    /\ server \in Servers
    /\ session \in {"Uninitialized", "Initialized", "Closed"}
    /\ req.op \in {"none", "list_tools", "call_tool"}
    /\ resp.kind \in {"none", "tools", "result", "error"}
    /\ history \in Seq({"tools", "result", "error"})
    /\ Len(history) = IF nreq = 0 THEN 0 ELSE nreq - 1
    /\ nreq \in 0..MaxRequests

-----------------------------------------------------------------------------
(* Vocabulary of the properties *)

IsCall == req.op = "call_tool"

\* the catalog entry of a tool name, and the names the catalog holds
Catalog == ListTools(server)
Registered == {Catalog[i].name : i \in DOMAIN Catalog}
ToolNamed(name) == CHOOSE t \in {Catalog[i] : i \in DOMAIN Catalog} : t.name = name
RequiredOf(name) == {ToolNamed(name).required[i] : i \in DOMAIN ToolNamed(name).required}
Omitted == RequiredOf(req.name) \ DOMAIN req.arguments

\* the prefix each server puts before the text of an exception
Prefix == IF server = "math" THEN "Error processing math operation"
          ELSE "Error processing Scaleway operation"

\* a request whose handling raises: unknown name, missing required
\* argument, an argument float() rejects, or a failed exchange with the API
Faulty ==
    \/ req.name \notin Registered
    \/ Omitted # {}
    \/ server = "math" /\ \E k \in DOMAIN req.arguments :
                             req.arguments[k].kind \in {"null", "object"}
                             \/ req.arguments[k] = StrVal("abc")
    \/ server = "scw" /\ req.http # "ok"

\* C1: every call_tool whose handling raises is answered by an error response
\* and leaves the session Initialized, and every other call_tool returns its
\* result whatever was answered before it
ErrorsStayInRequest ==
    /\ [](IsCall => (resp.kind = "error" <=> Faulty) /\ (resp.kind = "result" <=> ~Faulty))
    /\ [][(nreq' = nreq + 1 /\ resp'.kind = "error") => session' = "Initialized"]_vars

\* a normal result served right after an error response on the same session
ResultAfterError ==
    /\ session = "Initialized"
    /\ IsCall /\ resp.kind = "result"
    /\ history # <<>> /\ history[Len(history)] = "error"

\* C2: a call_tool with a name that is not in the catalog is answered by the
\* "Unknown tool" error naming that name, and no handler is invoked
UnknownNameIsError ==
    (IsCall /\ req.name \notin Registered) =>
        /\ resp.kind = "error"
        /\ resp.error.message = Prefix \o ": Unknown tool: " \o req.name
        /\ resp.error.tool = req.name
        /\ invoked = NoInvoke
        /\ apiRequest = NoApi

UnknownNameServed ==
    /\ IsCall /\ server = "scw" /\ req.name = "add"
    /\ DOMAIN req.arguments = {"zone", "server_id"}
    /\ resp.kind = "error"

\* C3 as stated: the error of a call that omits required fields names
\* exactly the omitted fields
MissingNamedExactly ==
    (IsCall /\ req.name \in Registered /\ Omitted # {}) =>
        /\ resp.kind = "error"
        /\ resp.error.fields = Omitted

\* C3 as amended: the error of a call that omits required fields names every
\* required field of the tool, the omitted ones among them, and no handler
\* is invoked
MissingNamedAmongRequired ==
    (IsCall /\ req.name \in Registered /\ Omitted # {}) =>
        /\ resp.kind = "error"
        /\ Omitted \subseteq resp.error.fields
        /\ resp.error.fields = RequiredOf(req.name)
        /\ invoked = NoInvoke

\* subtract called with a but without b
OnlyBOmitted ==
    /\ IsCall /\ server = "math" /\ req.name = "subtract"
    /\ DOMAIN req.arguments = {"a"}
    /\ resp.kind = "error"
    /\ resp.error.fields = {"a", "b"}

\* a value of the declared schema type (and of the enumeration, if any)
Conforms(prop, v) ==
    /\ CASE prop.type = "number"  -> v.kind \in {"int", "float"}
         [] prop.type = "integer" -> v.kind = "int"
         [] prop.type = "string"  -> v.kind = "str"
         [] prop.type = "boolean" -> v.kind = "bool"
         [] prop.type = "object"  -> v.kind = "object"
         [] OTHER -> FALSE
    /\ prop.enum # {} => v.s \in prop.enum

\* C4: a handler is invoked only with all required fields and with every
\* argument of its declared schema type (None standing for an omitted
\* optional field)
HandlerArgsConform ==
    invoked # NoInvoke =>
        LET tool == ToolNamed(invoked.handler)
        IN  /\ Omitted = {}
            /\ \A k \in DOMAIN invoked.args :
                 \/ invoked.args[k] = Null /\ k \notin DOMAIN req.arguments
                 \/ Conforms(tool.properties[k], invoked.args[k])

\* C5: every list_tools response holds the tools in registration order and
\* equals the first listing of the session
ListingStable ==
    resp.kind = "tools" =>
        /\ [i \in DOMAIN resp.tools |-> resp.tools[i].name]
             = IF server = "math" THEN <<"add", "subtract">>
               ELSE <<"list_instances", "get_instance", "perform_action">>
        /\ resp.tools = firstList

\* a listing, a failing call, a second listing
ListedAgainAfterFailure ==
    /\ resp.kind = "tools" /\ server = "math"
    /\ history = <<"tools", "error">>

\* the floating literal equal to an integer literal
FloatLiteral(x) == IF x.kind = "int" THEN FloatVal(x.neg, 2 * x.mag) ELSE x

\* C6: add and subtract answer integer literals as they answer the equal
\* floating literals, in each argument independently
CoercionSame ==
    (IsCall /\ server = "math" /\ req.name \in {"add", "subtract"}
        /\ DOMAIN req.arguments = {"a", "b"}
        /\ \A k \in {"a", "b"} : req.arguments[k].kind = "int") =>
        \A fa \in {req.arguments.a, FloatLiteral(req.arguments.a)} :
          \A fb \in {req.arguments.b, FloatLiteral(req.arguments.b)} :
            /\ resp.kind = "result"
            /\ ServeCall(MathCallTool(req.name, [a |-> fa, b |-> fb])).resp = resp

AddOfIntegers ==
    /\ IsCall /\ server = "math" /\ req.name = "add"
    /\ req.arguments = [a |-> IntVal(1), b |-> IntVal(-1)]
    /\ resp.kind = "result"
    /\ resp.content[1].text.details = "1.0 + -1.0 = 0.0"

\* an integer as Python prints the float equal to it
Dec(n) == ToString(n) \o ".0"

\* C7: for integers a and b, add answers one text part with operation
\* "addition" and result a+b, subtract with "subtraction" and a-b, the
\* details restating the operands and the result
AddSubtractResults ==
    (IsCall /\ server = "math" /\ req.name \in {"add", "subtract"}
        /\ DOMAIN req.arguments = {"a", "b"}
        /\ \A k \in {"a", "b"} : req.arguments[k].kind = "int") =>
        LET a == Signed(req.arguments.a)
            b == Signed(req.arguments.b)
        IN  /\ resp.kind = "result"
            /\ Len(resp.content) = 1
            /\ resp.content[1].type = "text"
            /\ resp.content[1].text =
                 IF req.name = "add"
                 THEN [operation |-> "addition", result |-> Dec(a + b),
                       details |-> Dec(a) \o " + " \o Dec(b) \o " = " \o Dec(a + b)]
                 ELSE [operation |-> "subtraction", result |-> Dec(a - b),
                       details |-> Dec(a) \o " - " \o Dec(b) \o " = " \o Dec(a - b)]

SubtractOfIntegers ==
    /\ IsCall /\ server = "math" /\ req.name = "subtract"
    /\ req.arguments = [a |-> IntVal(-1), b |-> IntVal(1)]
    /\ resp.kind = "result"
    /\ resp.content[1].text.result = "-2.0"

\* C9: every record on standard output is a protocol message
StdoutOnlyMessages ==
    \A i \in DOMAIN stdout : stdout[i] = "message"

\* C10: the payload of perform_action holds the action, and holds name,
\* volumes and disable_ipv6 only as supplied and only for their own action
PayloadFieldsOwnAction ==
    apiRequest.method = "POST" =>
        LET payload == apiRequest.payload
            args == req.arguments
        IN  /\ "action" \in DOMAIN payload /\ payload.action = args.action
            /\ \A k \in {"name", "volumes"} :
                 k \in DOMAIN payload =>
                    /\ k \in DOMAIN args /\ payload[k] = args[k]
                    /\ args.action = StrVal("backup")
            /\ "disable_ipv6" \in DOMAIN payload =>
                    /\ "disable_ipv6" \in DOMAIN args
                    /\ payload.disable_ipv6 = args.disable_ipv6
                    /\ args.action = StrVal("enable_routed_ip")
            /\ DOMAIN payload \subseteq {"action", "name", "volumes", "disable_ipv6"}

\* name and volumes supplied for enable_routed_ip are left out, disable_ipv6 is sent
BackupFieldsLeftOut ==
    /\ apiRequest.method = "POST"
    /\ req.arguments.action = StrVal("enable_routed_ip")
    /\ {"name", "volumes", "disable_ipv6"} \subseteq DOMAIN req.arguments
    /\ req.arguments.name # Null
    /\ DOMAIN apiRequest.payload = {"action", "disable_ipv6"}

\* an error that reports an unknown tool or a missing argument
UnknownOrMissingError ==
    resp.kind = "error" /\ (resp.error.tool # "" \/ resp.error.fields # {})

\* C11: catalog and dispatcher agree: a call of a catalog name with every
\* required field never fails as unknown tool or missing argument, a call
\* that omits a required field fails before any handler or API request
\* (the schema default of a required field is not applied), and an omitted
\* optional field with a schema default reaches the handler as that default
CatalogAgreesWithDispatch ==
    (IsCall /\ req.name \in Registered) =>
        /\ Omitted = {} => ~UnknownOrMissingError
        /\ Omitted = {} /\ (server = "math" \/ req.http = "ok") /\ ~Faulty =>
               invoked.handler = req.name
        /\ Omitted # {} =>
               /\ resp.kind = "error"
               /\ invoked = NoInvoke
               /\ apiRequest = NoApi
        /\ invoked # NoInvoke =>
               \A k \in DOMAIN ToolNamed(req.name).properties :
                   (k \notin DOMAIN req.arguments
                       /\ ToolNamed(req.name).properties[k].default # NoDefault) =>
                       invoked.args[k] = ToolNamed(req.name).properties[k].default

\* list_instances called with zone alone: the handler gets the three defaults
DefaultsReachHandler ==
    /\ IsCall /\ server = "scw" /\ req.name = "list_instances"
    /\ DOMAIN req.arguments = {"zone"}
    /\ invoked.handler = "list_instances"
    /\ invoked.args.per_page = IntVal(50)
    /\ invoked.args.page = IntVal(1)
    /\ invoked.args.state = StrVal("running")

====
